---- MODULE Spec2Model ----
(***************************************************************************)
(* A model of skyfield_solar.py: for every receiver of the dxcc list the   *)
(* script walks the date list, asks the ephemeris for the sunrise/sunset   *)
(* events of the transmitter, the receiver and the circuit midpoint,       *)
(* accumulates six parallel series of minutes-of-day, and draws and saves  *)
(* one chart.                                                              *)
(*                                                                         *)
(* Representation.  A minute-of-day is kept exactly, in sixtieths of a     *)
(* minute (810.75 minutes is 48645).  np.nan is the value NaN.  A string   *)
(* is a sequence of one-character strings.  A day's find_discrete result   *)
(* (the arrays tx, yt) is one sequence of records [time, rising].          *)
(***************************************************************************)
EXTENDS Integers, Sequences, FiniteSets, TLC

VARIABLES
    pc,         \* where the script is: "receiver", "days", "chart", "end", "aborted"
    ci,         \* position of the `for country in dxcc` iterator
    di,         \* position of the `for date in date_list` iterator
    cty,        \* name of the receiver being processed
    prefix,     \* sanitized receiver name
    dates,      \* the dates list
    t_sr, t_ss, \* transmitter sunrise / sunset series
    r_sr, r_ss, \* receiver sunrise / sunset series
    mp_sr, mp_ss, \* midpoint sunrise / sunset series
    tx, rx, mp, \* the latest find_discrete results (times zipped with yt, yr, ym)
    yx, yy, yz, \* the loop variables of the three event loops: <<>> while unbound
    fill,       \* the fill_between calls of the chart saved last, until the next receiver begins
    saved,      \* the file names handed to plt.savefig, in order
    txEphem,    \* the ephemeris' answer for the transmitter location, per day
    clock,      \* the UTC clock fields handed to convert_to_minutes
    minutes     \* the value convert_to_minutes returned

vars == <<pc, ci, di, cty, prefix, dates, t_sr, t_ss, r_sr, r_ss, mp_sr, mp_ss,
          tx, rx, mp, yx, yy, yz, fill, saved, txEphem, clock, minutes>>

(***************************************************************************)
(* Bounds of the model.                                                    *)
(***************************************************************************)
NumDays == 2

NumRx == 2

MaxNameLen == 4

(***************************************************************************)
(* Program constants.                                                      *)
(***************************************************************************)
NaN == -1

MinPerHour == 60

SecPerMin == 60

StartYear == <<"2", "0", "2", "0">>

txname == <<"Z", "L", "1", " ", "A", "u", "c", "k", "l", "a", "n", "d">>

\* The receiver names of the dxcc list (the non-ASCII bytes of the fourth
\* name are written "a").
dxcc ==
    << <<"3", "Y", "/", "B", " ", "B", "o", "u", "v", "e", "t">>,
       <<"P", "Y", "0", "T", " ", "T", "r", "i", "n", "d", "a", "d", "e", " ",
         "&", " ", "M", "a", "r", "t", "i", "m", " ", "V", "a", "z", " ", "I", "s">>,
       <<"W", "2", " ", "N", "e", "w", " ", "Y", "o", "r", "k", " ", "C", "i",
         "t", "y", ",", " ", "N", "Y">>,
       <<"O", "J", "0", " ", "M", "a", "r", "k", "e", "t", " ", "R", "e", "e", "f">> >>

\* The receivers of a run: the first NumRx entries of the list, the list
\* repeated when NumRx exceeds it.
country(k) == dxcc[((k - 1) % Len(dxcc)) + 1]

date_list == [x \in 1..NumDays |-> x]

(***************************************************************************)
(* The ephemeris (find_discrete over sunrise_sunset).  It is external: the *)
(* model draws its answers.  An answer is a time-ordered sequence of       *)
(* events of one UTC day, each with the flag of the state it changes to.   *)
(***************************************************************************)
Instants ==
    << [hour |-> 0, minute |-> 0, second |-> 0],
       [hour |-> 13, minute |-> 30, second |-> 45],
       [hour |-> 19, minute |-> 5, second |-> 30],
       [hour |-> 23, minute |-> 59, second |-> 59] >>

\* Every answer of n events: the k-th event of a day falls on the k-th instant.
EventsOfLen(n) ==
    { [k \in 1..n |-> [time |-> Instants[k], rising |-> f[k]]] : f \in [1..n -> BOOLEAN] }

Alternating(evs) == \A k \in 1..(Len(evs) - 1) : evs[k].rising # evs[k + 1].rising

\* What the almanac returns: 0 to 3 events whose flags alternate.
WellFormed == { evs \in UNION { EventsOfLen(n) : n \in 0..3 } : Alternating(evs) }

\* Any answer of up to 4 events, alternating or not.
AnyEvents == UNION { EventsOfLen(n) : n \in 0..4 }

(***************************************************************************)
(* convert_to_minutes: tn.hour * 60 + tn.minute + tn.second / 60, here in  *)
(* sixtieths of a minute.                                                  *)
(***************************************************************************)
nearest_minute_only(dt) == (dt.hour * MinPerHour + dt.minute) * SecPerMin

convert_to_minutes(dt) == (dt.hour * MinPerHour + dt.minute) * SecPerMin + dt.second

(***************************************************************************)
(* One location's share of the body of the date loop.                      *)
(***************************************************************************)
\* A faulty variant of the one-event branch: the marker goes to the event's own side.
ClassifyWrongSide(evs, sr, ss) ==
    IF Len(evs) = 0 THEN [sr |-> Append(sr, NaN), ss |-> Append(ss, NaN)]
    ELSE IF Len(evs) = 1
         THEN IF evs[1].rising THEN [sr |-> Append(sr, NaN), ss |-> ss]
                               ELSE [sr |-> sr, ss |-> Append(ss, NaN)]
         ELSE [sr |-> sr, ss |-> ss]

\* A faulty variant of the event-count branch: a day without events appends nothing.
ClassifyNoPolar(evs, sr, ss) ==
    IF Len(evs) = 1
    THEN IF evs[1].rising THEN [sr |-> sr, ss |-> Append(ss, NaN)]
                          ELSE [sr |-> Append(sr, NaN), ss |-> ss]
    ELSE [sr |-> sr, ss |-> ss]

\* `if not len(tx): ... elif len(yt) == 1: if yt: ... else: ...`
Classify(evs, sr, ss) ==
    IF Len(evs) = 0 THEN [sr |-> Append(sr, NaN), ss |-> Append(ss, NaN)]
    ELSE IF Len(evs) = 1
         THEN IF evs[1].rising THEN [sr |-> sr, ss |-> Append(ss, NaN)]
                               ELSE [sr |-> Append(sr, NaN), ss |-> ss]
         ELSE [sr |-> sr, ss |-> ss]

\* A faulty variant of the loop body: the first event of a day is filed as the
\* sunrise and the later ones as sunsets, whatever their flags.
LoopBodyByOrder(k, ev, sr, ss) ==
    IF k = 1 THEN [sr |-> Append(sr, convert_to_minutes(ev.time)), ss |-> ss]
             ELSE [sr |-> sr, ss |-> Append(ss, convert_to_minutes(ev.time))]

\* `if yx: t_sr.append(convert_to_minutes(time)) else: t_ss.append(...)`
\* for the k-th pair of the zip.
LoopBody(k, ev, sr, ss) ==
    IF ev.rising THEN [sr |-> Append(sr, convert_to_minutes(ev.time)), ss |-> ss]
                 ELSE [sr |-> sr, ss |-> Append(ss, convert_to_minutes(ev.time))]

\* `for time, yx in zip(tx, yt)`: the lists after the pairs k..Len(evs), and
\* the loop variable, which keeps its old value when the zip is empty.
RECURSIVE EventLoop(_, _, _, _, _)
EventLoop(evs, k, sr, ss, y) ==
    IF k > Len(evs) THEN [sr |-> sr, ss |-> ss, y |-> y]
    ELSE LET b == LoopBody(k, evs[k], sr, ss)
         IN  EventLoop(evs, k + 1, b.sr, b.ss, <<evs[k].rising>>)

\* list.pop(): the list without its last item.
Pop(s) == SubSeq(s, 1, Len(s) - 1)

\* list.pop(-2): the list without the item before its last.
PopEarlier(s) == Append(SubSeq(s, 1, Len(s) - 2), s[Len(s)])

\* A faulty variant of the discard: the earlier of the two values of the side goes.
PopFirstOfSide(evs, sr, ss, y) ==
    IF Len(evs) = 3
    THEN IF y = <<TRUE>> THEN [sr |-> PopEarlier(sr), ss |-> ss]
                         ELSE [sr |-> sr, ss |-> PopEarlier(ss)]
    ELSE [sr |-> sr, ss |-> ss]

\* `if len(list(zip(tx, yt))) == 3: if yx: t_sr.pop() else: t_ss.pop()`,
\* y being the loop variable as the loop left it.
PopThird(evs, sr, ss, y) ==
    IF Len(evs) = 3
    THEN IF y = <<TRUE>> THEN [sr |-> Pop(sr), ss |-> ss] ELSE [sr |-> sr, ss |-> Pop(ss)]
    ELSE [sr |-> sr, ss |-> ss]

\* The three steps for one location: the lists and the loop variable after.
Segment(evs, sr, ss, y) ==
    LET c == Classify(evs, sr, ss)
        l == EventLoop(evs, 1, c.sr, c.ss, y)
        p == PopThird(evs, l.sr, l.ss, l.y)
    IN  [sr |-> p.sr, ss |-> p.ss, y |-> l.y]

(***************************************************************************)
(* The receiver name and the chart's file name.                            *)
(***************************************************************************)
\* str.replace(old, new) for a one-character old; new is a string.
RECURSIVE replace(_, _, _)
replace(s, old, new) ==
    IF s = <<>> THEN <<>>
    ELSE (IF Head(s) = old THEN new ELSE <<Head(s)>>) \o replace(Tail(s), old, new)

\* A faulty variant of the sanitization: the slash is replaced like the space.
SanitizeSlashAsSpace(name) ==
    replace(replace(replace(replace(name, " ", <<"_">>), ".", <<>>), ",", <<>>), "/", <<"_">>)

\* cty.replace(' ', '_').replace('.', '').replace(',', '').replace('/', '')
Sanitize(name) ==
    replace(replace(replace(replace(name, " ", <<"_">>), ".", <<>>), ",", <<>>), "/", <<>>)

\* '%s_%s_%s' % (start_date.year, txname, prefix)
FileName(pre) == StartYear \o <<"_">> \o txname \o <<"_">> \o pre

(***************************************************************************)
(* The fill polarity: `t_sr <= t_ss` compares two Python lists.            *)
(***************************************************************************)
\* The == of two list items as list comparison applies it: the same object,
\* or equal values.  Every missing slot is the one object np.nan.
PyEq(a, b) == a = b

\* float <= float: false when either is nan.
FloatLeq(a, b) == a # NaN /\ b # NaN /\ a <= b

\* A faulty variant of the comparison: the first items alone decide.
FirstItemLeq(a, b) ==
    IF a = <<>> \/ b = <<>> THEN Len(a) <= Len(b) ELSE FloatLeq(Head(a), Head(b))

\* list <= list: the first pair of items that are not == decides; without
\* one, the lengths do.
RECURSIVE ListLeq(_, _)
ListLeq(a, b) ==
    IF a = <<>> \/ b = <<>> THEN Len(a) <= Len(b)
    ELSE IF PyEq(Head(a), Head(b)) THEN ListLeq(Tail(a), Tail(b))
    ELSE FloatLeq(Head(a), Head(b))

\* The fill_between calls for one location: (lower series, upper series or bound).
Fill(loc, sr, ss) ==
    IF ListLeq(sr, ss)
    THEN << [of |-> loc, from |-> "ss", to |-> "1440"], [of |-> loc, from |-> "sr", to |-> "0"] >>
    ELSE << [of |-> loc, from |-> "ss", to |-> "sr"] >>

(***************************************************************************)
(* The script.                                                             *)
(***************************************************************************)
\* A faulty variant of the loop head: a list keeps what the last receiver left in it.
StaleList(old) == old

\* `dates, t_sr, t_ss, r_sr, r_ss, mp_sr, mp_ss = [], [], [], [], [], [], []`
NewList(old) == <<>>

\* The script's variables before its first statement runs.
Blank ==
    /\ ci = 1
    /\ di = 1
    /\ prefix = <<>>
    /\ dates = <<>>
    /\ t_sr = <<>> /\ t_ss = <<>>
    /\ r_sr = <<>> /\ r_ss = <<>>
    /\ mp_sr = <<>> /\ mp_ss = <<>>
    /\ tx = <<>> /\ rx = <<>> /\ mp = <<>>
    /\ yx = <<>> /\ yy = <<>> /\ yz = <<>>
    /\ fill = <<>>
    /\ saved = <<>>
    /\ minutes = NaN

\* The start of a run whose transmitter answers come from E.  The ephemeris
\* is a function of place and day: the transmitter's answers are fixed for
\* the run, each receiver and each midpoint is a place of its own.
InitWith(E) ==
    /\ Blank
    /\ pc = "receiver"
    /\ cty = <<>>
    /\ txEphem \in [1..NumDays -> E]
    /\ clock = Instants[1]

\* An uncaught exception ends the interpreter: the traceback is printed, the
\* script's variables are gone, the files saved so far stay.
Abort ==
    /\ pc' = "aborted"
    /\ ci' = 1
    /\ di' = 1
    /\ cty' = <<>>
    /\ prefix' = <<>>
    /\ dates' = <<>>
    /\ t_sr' = <<>> /\ t_ss' = <<>>
    /\ r_sr' = <<>> /\ r_ss' = <<>>
    /\ mp_sr' = <<>> /\ mp_ss' = <<>>
    /\ tx' = <<>> /\ rx' = <<>> /\ mp' = <<>>
    /\ yx' = <<>> /\ yy' = <<>> /\ yz' = <<>>
    /\ fill' = <<>>
    /\ UNCHANGED <<saved, txEphem, clock, minutes>>

\* The head of `for country in dxcc` down to the date loop: the lists are
\* rebound, the name is sanitized, the midpoint is located.
StartReceiver ==
    /\ pc = "receiver"
    /\ ci <= NumRx
    /\ dates' = NewList(dates)
    /\ t_sr' = NewList(t_sr) /\ t_ss' = NewList(t_ss)
    /\ r_sr' = NewList(r_sr) /\ r_ss' = NewList(r_ss)
    /\ mp_sr' = NewList(mp_sr) /\ mp_ss' = NewList(mp_ss)
    /\ cty' = country(ci)
    /\ prefix' = Sanitize(country(ci))
    /\ di' = 1
    /\ fill' = <<>>
    /\ pc' = IF NumDays = 0 THEN "chart" ELSE "days"
    /\ UNCHANGED <<ci, tx, rx, mp, yx, yy, yz, saved, txEphem, clock, minutes>>

\* One pass of `for date in date_list`, the ephemeris answering from E.
ProcessDay(E) ==
    /\ pc = "days"
    /\ \E er \in E, em \in E :
        LET et == txEphem[date_list[di]]
            T == Segment(et, t_sr, t_ss, yx)
            R == Segment(er, r_sr, r_ss, yy)
            M == Segment(em, mp_sr, mp_ss, yz)
        IN  /\ dates' = Append(dates, date_list[di])
            /\ tx' = et /\ rx' = er /\ mp' = em
            /\ t_sr' = T.sr /\ t_ss' = T.ss /\ yx' = T.y
            /\ r_sr' = R.sr /\ r_ss' = R.ss /\ yy' = R.y
            /\ mp_sr' = M.sr /\ mp_ss' = M.ss /\ yz' = M.y
    /\ di' = di + 1
    /\ pc' = IF di = NumDays THEN "chart" ELSE "days"
    /\ UNCHANGED <<ci, cty, prefix, fill, saved, txEphem, clock, minutes>>

\* ax.plot(x, y) raises ValueError unless x and y have the same length.
Plottable == \A s \in {t_sr, t_ss, r_sr, r_ss, mp_sr, mp_ss} : Len(s) = Len(dates)

\* The rest of the loop body: the curves, the two fills, savefig; after the
\* last receiver, print("++ END ++").
DrawChart ==
    /\ pc = "chart"
    /\ IF Plottable
       THEN /\ fill' = Fill("t", t_sr, t_ss) \o Fill("r", r_sr, r_ss)
            /\ saved' = Append(saved, FileName(prefix))
            /\ ci' = ci + 1
            /\ pc' = IF ci = NumRx THEN "end" ELSE "receiver"
            /\ UNCHANGED <<di, cty, prefix, dates, t_sr, t_ss, r_sr, r_ss, mp_sr, mp_ss,
                           tx, rx, mp, yx, yy, yz, txEphem, clock, minutes>>
       ELSE Abort

\* A call into the geodesy library, the ephemeris or the chart writer raises.
\* The script has no try statement.
Raise ==
    /\ pc \in {"receiver", "days", "chart"}
    /\ Abort

Init == InitWith(WellFormed)

Next ==
    \/ StartReceiver
    \/ ProcessDay(WellFormed)
    \/ DrawChart
    \/ Raise

Spec == Init /\ [][Next]_vars

(***************************************************************************)
(* The same script over an ephemeris whose transmitter answers are not     *)
(* checked: up to 4 events with any flags.  The receiver and the midpoint  *)
(* have ordinary days of one sunrise and one sunset.                       *)
(***************************************************************************)
Ordinary == { evs \in EventsOfLen(2) : Alternating(evs) }

InitMalformed == InitWith(AnyEvents)

NextMalformed ==
    \/ StartReceiver
    \/ ProcessDay(Ordinary)
    \/ DrawChart
    \/ Raise

SpecMalformed == InitMalformed /\ [][NextMalformed]_vars

(***************************************************************************)
(* convert_to_minutes alone, over every clock reading of a day.            *)
(***************************************************************************)
InitMinutes ==
    /\ Blank
    /\ pc = "convert"
    /\ cty = <<>>
    /\ txEphem = [d \in 1..NumDays |-> <<>>]
    /\ clock \in [hour : 0..23, minute : 0..59, second : 0..59]

Convert ==
    /\ pc = "convert"
    /\ minutes' = convert_to_minutes(clock)
    /\ pc' = "converted"
    /\ UNCHANGED <<ci, di, cty, prefix, dates, t_sr, t_ss, r_sr, r_ss, mp_sr, mp_ss,
                   tx, rx, mp, yx, yy, yz, fill, saved, txEphem, clock>>

SpecMinutes == InitMinutes /\ [][Convert]_vars

(***************************************************************************)
(* The sanitization and the file name alone, over short receiver names.    *)
(***************************************************************************)
Alphabet == {" ", ".", ",", "/", "_", "a"}

Names == UNION { [1..n -> Alphabet] : n \in 0..MaxNameLen }

InitPrefix ==
    /\ Blank
    /\ pc = "name"
    /\ cty \in Names
    /\ txEphem = [d \in 1..NumDays |-> <<>>]
    /\ clock = Instants[1]

NameChart ==
    /\ pc = "name"
    /\ prefix' = Sanitize(cty)
    /\ saved' = <<FileName(Sanitize(cty))>>
    /\ pc' = "named"
    /\ UNCHANGED <<ci, di, cty, dates, t_sr, t_ss, r_sr, r_ss, mp_sr, mp_ss,
                   tx, rx, mp, yx, yy, yz, fill, txEphem, clock, minutes>>

SpecPrefix == InitPrefix /\ [][NameChart]_vars

(***************************************************************************)
(* Vocabulary of the properties.                                           *)
(***************************************************************************)
Loc == {"t", "r", "m"}

Ev(l) == IF l = "t" THEN tx ELSE IF l = "r" THEN rx ELSE mp

Sr(l) == IF l = "t" THEN t_sr ELSE IF l = "r" THEN r_sr ELSE mp_sr

Ss(l) == IF l = "t" THEN t_ss ELSE IF l = "r" THEN r_ss ELSE mp_ss

\* A day has just been processed: tx, rx and mp hold its answers, and its
\* slots are those at index Len(dates).
DayDone == pc \in {"days", "chart"} /\ dates # <<>>

Minute(ev) == (3600 * ev.time.hour + 60 * ev.time.minute + ev.time.second)

\* C1: after the k-th day of a receiver each of the six sequences has length
\* exactly k, the length of the dates list; when the date loop has ended,
\* and on the chart drawn from them, that is the number of days of the range.
C1_LengthSync ==
    /\ pc \in {"days", "chart"} =>
          /\ Len(dates) = di - 1
          /\ \A l \in Loc : Len(Sr(l)) = di - 1 /\ Len(Ss(l)) = di - 1
    /\ (pc = "chart" \/ fill # <<>>) =>
          /\ Len(dates) = NumDays
          /\ \A l \in Loc : Len(Sr(l)) = NumDays /\ Len(Ss(l)) = NumDays

C1_Witness ==
    /\ pc = "chart" /\ ci = NumRx
    /\ Len(tx) = 3 /\ Len(rx) = 0 /\ Len(mp) = 1
    /\ Len(t_sr) = NumDays /\ Len(r_ss) = NumDays /\ Len(mp_sr) = NumDays

\* C2: a day with 3 alternating events leaves, for its location, one slot on
\* each side: the minute-of-day of the first and of the second event, each
\* on the side of its flag; the third event's value is the one dropped.
C2_ThreeEventsKeepFirstTwo ==
    DayDone => \A l \in Loc :
        (Len(Ev(l)) = 3 /\ Alternating(Ev(l))) =>
            LET e == Ev(l)
                k == Len(dates)
                up == IF e[1].rising THEN 1 ELSE 2
                down == IF e[1].rising THEN 2 ELSE 1
            IN  /\ Len(Sr(l)) = k /\ Len(Ss(l)) = k
                /\ Sr(l)[k] = Minute(e[up])
                /\ Ss(l)[k] = Minute(e[down])
                /\ Sr(l)[k] # Minute(e[3]) /\ Ss(l)[k] # Minute(e[3])

C2_Witness ==
    /\ DayDone /\ Len(dates) = NumDays
    /\ Len(tx) = 3 /\ tx[1].rising
    /\ Len(rx) = 3 /\ ~rx[1].rising
    /\ Len(mp) = 3
    /\ t_sr[NumDays] = Minute(tx[1]) /\ r_sr[NumDays] = Minute(rx[2])

\* C3: a day with one rising and one setting event, in either time order,
\* has the rising event's minute-of-day as its sunrise slot and the setting
\* event's as its sunset slot, neither of them the missing marker.
C3_TwoEventsByFlag ==
    DayDone => \A l \in Loc :
        (Len(Ev(l)) = 2 /\ Ev(l)[1].rising # Ev(l)[2].rising) =>
            LET e == Ev(l)
                k == Len(dates)
                up == IF e[1].rising THEN 1 ELSE 2
                down == IF e[1].rising THEN 2 ELSE 1
            IN  /\ Len(Sr(l)) = k /\ Len(Ss(l)) = k
                /\ Sr(l)[k] = Minute(e[up]) /\ Sr(l)[k] # NaN
                /\ Ss(l)[k] = Minute(e[down]) /\ Ss(l)[k] # NaN

C3_Witness ==
    /\ DayDone /\ Len(dates) = NumDays
    /\ Len(tx) = 2 /\ ~tx[1].rising /\ tx[2].rising
    /\ Len(rx) = 2 /\ rx[1].rising /\ ~rx[2].rising
    /\ t_sr[NumDays] > t_ss[NumDays] /\ r_sr[NumDays] < r_ss[NumDays]

\* C4: a day without events has the missing marker in both of its slots; a
\* day with one event has that event's minute-of-day on the side of its flag
\* and the missing marker on the other; each sequence has one slot per day.
C4_ZeroOrOneEvent ==
    DayDone => \A l \in Loc :
        LET e == Ev(l)
            k == Len(dates)
        IN  /\ Len(e) = 0 =>
                /\ Len(Sr(l)) = k /\ Len(Ss(l)) = k
                /\ Sr(l)[k] = NaN /\ Ss(l)[k] = NaN
            /\ (Len(e) = 1 /\ e[1].rising) =>
                /\ Len(Sr(l)) = k /\ Len(Ss(l)) = k
                /\ Sr(l)[k] = Minute(e[1]) /\ Ss(l)[k] = NaN
            /\ (Len(e) = 1 /\ ~e[1].rising) =>
                /\ Len(Sr(l)) = k /\ Len(Ss(l)) = k
                /\ Sr(l)[k] = NaN /\ Ss(l)[k] = Minute(e[1])

C4_Witness ==
    /\ DayDone /\ Len(dates) = NumDays
    /\ Len(tx) = 0 /\ t_sr[NumDays] = NaN /\ t_ss[NumDays] = NaN
    /\ Len(rx) = 1 /\ rx[1].rising /\ r_ss[NumDays] = NaN
    /\ Len(mp) = 1 /\ ~mp[1].rising /\ mp_sr[NumDays] = NaN

\* A chart has just been drawn: fill holds its regions, and the lists it was
\* drawn from are still bound.
Drawn == fill # <<>>

RegionsOf(l) == SelectSeq(fill, LAMBDA f : f.of = l)

\* The "normal" fill: sunset up to 1440 and sunrise down to 0.
Normal(l) ==
    RegionsOf(l) = << [of |-> l, from |-> "ss", to |-> "1440"],
                      [of |-> l, from |-> "sr", to |-> "0"] >>

\* The "inverted" fill: one region between sunset and sunrise.
Inverted(l) == RegionsOf(l) = << [of |-> l, from |-> "ss", to |-> "sr"] >>

\* C5 as stated: for the transmitter and for the receiver the fill is normal
\* exactly when the first sunrise value is <= the first sunset value, and
\* inverted otherwise, whatever the later days hold.
C5_FirstDayDecides ==
    Drawn => \A l \in {"t", "r"} :
        IF Sr(l)[1] # NaN /\ Ss(l)[1] # NaN /\ Sr(l)[1] <= Ss(l)[1]
        THEN Normal(l)
        ELSE Inverted(l)

\* The days on which the two slots of a location are not the same value
\* (two missing markers are the same value).
Differing(l) == { i \in 1..Len(dates) : Sr(l)[i] # Ss(l)[i] }

\* C5 as amended: the first day on which the sunrise and the sunset slot
\* differ decides: normal when that day's sunrise is <= its sunset, inverted
\* when it is greater or when one of the two is missing; normal when no day
\* differs.  The first day decides whenever its two slots differ.
C5_FirstDifferingDayDecides ==
    Drawn => \A l \in {"t", "r"} :
        IF Differing(l) = {}
        THEN Normal(l)
        ELSE LET i == CHOOSE j \in Differing(l) : \A h \in Differing(l) : j <= h
             IN  IF Sr(l)[i] # NaN /\ Ss(l)[i] # NaN /\ Sr(l)[i] <= Ss(l)[i]
                 THEN Normal(l)
                 ELSE Inverted(l)

\* The first day has no events at the transmitter, a later day has its
\* sunrise before its sunset, and the fill is the normal one.
C5_Witness ==
    /\ Drawn
    /\ t_sr[1] = NaN /\ t_ss[1] = NaN
    /\ t_sr[NumDays] # NaN /\ t_ss[NumDays] # NaN /\ t_sr[NumDays] < t_ss[NumDays]
    /\ Normal("t")
    /\ r_sr[1] # NaN /\ r_ss[1] # NaN /\ r_sr[1] > r_ss[1] /\ Inverted("r")

\* C6: a day whose transmitter answer cannot be reconciled is rejected: the
\* script never goes on past it with the transmitter's two sequences of
\* different lengths, or of a length other than that of the dates list.
C6_MalformedDayRejected ==
    pc \in {"days", "chart"} => Len(t_sr) = Len(dates) /\ Len(t_ss) = Len(dates)

\* C7: a call that raises while one receiver is processed costs that
\* receiver's chart only: the run ends with the charts of all the others
\* saved.
C7_OtherReceiversSaved ==
    pc = "aborted" => Len(saved) >= NumRx - 1

\* C8: for every clock reading convert_to_minutes returns
\* hour*60 + minute + second/60 minutes, that is 3600*hour + 60*minute +
\* second sixtieths, at least 0 and less than 1440 minutes; 13:30:45 gives
\* 810.75 minutes, 48645 sixtieths.
C8_MinuteOfDay ==
    pc = "converted" =>
        /\ minutes = 3600 * clock.hour + 60 * clock.minute + clock.second
        /\ minutes >= 0 /\ minutes < 1440 * 60
        /\ clock = [hour |-> 13, minute |-> 30, second |-> 45] => 4 * minutes = 3243 * 60

C8_Witness ==
    /\ pc = "converted"
    /\ clock = [hour |-> 13, minute |-> 30, second |-> 45]
    /\ minutes = 48645

\* The name with its periods, commas and slashes left out.
Kept(name) == SelectSeq(name, LAMBDA c : c \notin {".", ",", "/"})

\* C9: the prefix holds no space, period, comma or slash; it is the name
\* with every space turned into an underscore and every period, comma and
\* slash left out, the rest in order; the chart is saved as
\* 2020_ZL1 Auckland_<prefix>.
C9_Prefix ==
    pc = "named" =>
        /\ \A i \in 1..Len(prefix) : prefix[i] \notin {" ", ".", ",", "/"}
        /\ Len(prefix) = Len(Kept(cty))
        /\ \A i \in 1..Len(prefix) :
              prefix[i] = IF Kept(cty)[i] = " " THEN "_" ELSE Kept(cty)[i]
        /\ saved = << <<"2", "0", "2", "0", "_", "Z", "L", "1", " ", "A", "u", "c", "k",
                        "l", "a", "n", "d", "_">> \o prefix >>

C9_Witness ==
    /\ pc = "named"
    /\ Len(cty) = MaxNameLen
    /\ \E i, j, k \in 1..Len(cty) : cty[i] = " " /\ cty[j] = "/" /\ cty[k] = "a"
    /\ Len(prefix) = MaxNameLen - 1

\* What one day's answer alone puts in the day's two slots.
DaySlot(evs) ==
    LET ups == { k \in 1..Len(evs) : evs[k].rising }
        downs == { k \in 1..Len(evs) : ~evs[k].rising }
        first(S) == CHOOSE k \in S : \A h \in S : k <= h
    IN  [sr |-> IF ups = {} THEN NaN ELSE Minute(evs[first(ups)]),
         ss |-> IF downs = {} THEN NaN ELSE Minute(evs[first(downs)])]

\* C10: a receiver starts with the dates list and the six sequences empty;
\* each day appends to each sequence the slot that the day's own answer
\* determines, whatever the loop variables and lists held before; and the
\* transmitter series at every chart is the one the transmitter's ephemeris
\* determines, the same for every receiver.
C10_NoCarryOver ==
    /\ [](pc = "days" /\ di = 1 =>
            /\ dates = <<>>
            /\ \A l \in Loc : Sr(l) = <<>> /\ Ss(l) = <<>>)
    /\ [][Len(dates') = Len(dates) + 1 =>
            \A l \in Loc :
                /\ Sr(l)' = Append(Sr(l), DaySlot(Ev(l)').sr)
                /\ Ss(l)' = Append(Ss(l), DaySlot(Ev(l)').ss)]_vars
    /\ [](pc = "chart" =>
            /\ t_sr = [d \in 1..NumDays |-> DaySlot(txEphem[d]).sr]
            /\ t_ss = [d \in 1..NumDays |-> DaySlot(txEphem[d]).ss])

\* The second receiver's last day has 3 events at the receiver, ending on a
\* setting event, while the loop variable of the receiver's loop was left
\* on a rising event by the day before.
C10_Witness ==
    /\ pc = "chart" /\ ci = NumRx /\ ci > 1
    /\ Len(rx) = 3 /\ ~rx[3].rising
    /\ r_sr[NumDays - 1] # NaN /\ r_ss[NumDays - 1] = NaN
    /\ Len(mp) = 0 /\ yz # <<>>

====
